---- MODULE Spec2Model ----
(***************************************************************************)
(* Model of the Databricks data access layer (src/data_layer.py) and of    *)
(* the parts of the dashboard (src/app.py) that drive it: connection-mode  *)
(* detection, lazy client construction, the query executor, the numeric    *)
(* normalizer, the st.cache_data result cache of the metric methods, the   *)
(* ad-hoc query path and the health probe.                                 *)
(*                                                                         *)
(* Python strings are sequences of tokens, so that str.replace and the     *)
(* f-string that builds the warehouse path are computed, not assumed.      *)
(***************************************************************************)
EXTENDS Integers, Sequences, FiniteSets, TLC

VARIABLES
    env,                 \* os.environ: a function from the set names to their values
    _use_sql_connector,  \* DatabricksDataLayer._use_sql_connector: "None", "True", "False"
    _connection,         \* DatabricksDataLayer._connection: NoClient or a connection
    _spark,              \* DatabricksDataLayer._spark: NoClient or a session
    cache,               \* st.cache_data storage: key -> [value, created]
    now,                 \* the clock the cache reads, in seconds
    frames,              \* the DataFrame objects alive in the process: id -> table
    callers,             \* the threads inside a client property: thread -> position
    run,                 \* the script run of main: its position and what it did so far
    last                 \* the most recent request: pre-state, inputs, outcome, events

vars == <<env, _use_sql_connector, _connection, _spark, cache, now, frames, callers, run, last>>

----------------------------------------------------------------------------
(* Python values *)

\* None where a str is expected (os.getenv of a name that is not set)
None == <<"None">>

\* bool(v) of an Optional[str]
Truthy(v) == v # None /\ v # <<>>

\* str.replace(old, "") on a string of tokens
Replace(str, old) == SelectSeq(str, LAMBDA tok : tok # old)

\* self._connection / self._spark before initialisation
NoClient == [kind |-> "None"]

----------------------------------------------------------------------------
(* Environment *)

RUNTIME_VERSION == "DATABRICKS_RUNTIME_VERSION"
WAREHOUSE_ID    == "DATABRICKS_WAREHOUSE_ID"
HTTP_PATH       == "DATABRICKS_HTTP_PATH"
CLUSTER_ID      == "DATABRICKS_CLUSTER_ID"
HOST            == "DATABRICKS_HOST"
TOKEN           == "DATABRICKS_TOKEN"

EnvNames == {RUNTIME_VERSION, WAREHOUSE_ID, HTTP_PATH, CLUSTER_ID, HOST, TOKEN}

\* the values a variable is set to: the empty string or a value
EnvValues(name) ==
    IF name = HOST
    THEN {<<>>, <<"h">>, <<"https://", "h">>, <<"http://">>}
    ELSE {<<>>, <<"x">>}

\* os.getenv(name, default)
getenv(e, name, default) == IF name \in DOMAIN e THEN e[name] ELSE default

\* the environment with name set to value / with name removed
SetVar(e, name, value) ==
    [n \in (DOMAIN e) \cup {name} |-> IF n = name THEN value ELSE e[n]]
UnsetVar(e, name) == [n \in (DOMAIN e) \ {name} |-> e[n]]

NoEnv == [n \in {} |-> <<>>]

----------------------------------------------------------------------------
(* Connection Resolver *)

Self(u, c, s) == [_use_sql_connector |-> u, _connection |-> c, _spark |-> s]

\* DetectFromEnv with the cluster id tested before the warehouse id and path
DetectFromEnv_ClusterFirst(e) ==
    IF Truthy(getenv(e, RUNTIME_VERSION, None)) THEN "False"
    ELSE IF Truthy(getenv(e, CLUSTER_ID, None)) THEN "False"
    ELSE "True"

\* the mode the environment dictates, as the str the field holds
DetectFromEnv(e) ==
    IF Truthy(getenv(e, RUNTIME_VERSION, None)) THEN "False"
    ELSE IF Truthy(getenv(e, WAREHOUSE_ID, None)) \/ Truthy(getenv(e, HTTP_PATH, None))
         THEN "True"
    ELSE IF Truthy(getenv(e, CLUSTER_ID, None)) THEN "False"
    ELSE "True"

\* _detect_connection_type without the early return on the memoized mode
_detect_connection_type_NoMemo(self, e) ==
    LET m == DetectFromEnv(e)
    IN  [self |-> [self EXCEPT !._use_sql_connector = m], ret |-> (m = "True")]

\* _detect_connection_type: [self after the call, ret = the bool returned]
_detect_connection_type(self, e) ==
    IF self._use_sql_connector # "None"
    THEN [self |-> self, ret |-> (self._use_sql_connector = "True")]
    ELSE LET m == DetectFromEnv(e)
         IN  [self |-> [self EXCEPT !._use_sql_connector = m], ret |-> (m = "True")]

\* the event a call of _detect_connection_type leaves in the request's trace
DetectEv(d) ==
    IF d.ret THEN "_detect_connection_type: True" ELSE "_detect_connection_type: False"

\* the three values _get_sql_connection reads from the environment
SqlHost(e)  == Replace(Replace(getenv(e, HOST, <<>>), "https://"), "http://")
SqlToken(e) == getenv(e, TOKEN, None)
SqlHttpPath_WarehouseFirst(e) ==
    LET warehouse_id == getenv(e, WAREHOUSE_ID, None)
        http_path    == getenv(e, HTTP_PATH, None)
    IN  IF Truthy(warehouse_id)
        THEN <<"/sql/1.0/warehouses/">> \o warehouse_id
        ELSE http_path
SqlHttpPath(e) ==
    LET warehouse_id == getenv(e, WAREHOUSE_ID, None)
        http_path    == getenv(e, HTTP_PATH, None)
    IN  IF ~Truthy(http_path) /\ Truthy(warehouse_id)
        THEN <<"/sql/1.0/warehouses/">> \o warehouse_id
        ELSE http_path

\* _get_sql_connection with the token left out of the validation
_get_sql_connection_TokenUnchecked(e, ext) ==
    LET host      == SqlHost(e)
        token     == SqlToken(e)
        http_path == SqlHttpPath(e)
    IN  IF ~Truthy(host) \/ ~Truthy(http_path)
        THEN [exc |-> "ValueError", ret |-> NoClient,
              ev |-> <<"_get_sql_connection", "raise ValueError">>]
        ELSE IF ext.fail = "client" \/ ~Truthy(token)
        THEN [exc |-> "ConnectError", ret |-> NoClient,
              ev |-> <<"_get_sql_connection", "sql.connect">>]
        ELSE [exc |-> "None",
              ret |-> [kind |-> "Connection", server_hostname |-> host,
                       http_path |-> http_path, access_token |-> token],
              ev |-> <<"_get_sql_connection", "sql.connect">>]

\* _get_sql_connection: raises ValueError before sql.connect when a setting
\* is missing; sql.connect itself fails when ext.fail = "client"
_get_sql_connection(e, ext) ==
    LET host      == SqlHost(e)
        token     == SqlToken(e)
        http_path == SqlHttpPath(e)
    IN  IF ~Truthy(host) \/ ~Truthy(token) \/ ~Truthy(http_path)
        THEN [exc |-> "ValueError", ret |-> NoClient,
              ev |-> <<"_get_sql_connection", "raise ValueError">>]
        ELSE IF ext.fail = "client"
        THEN [exc |-> "ConnectError", ret |-> NoClient,
              ev |-> <<"_get_sql_connection", "sql.connect">>]
        ELSE [exc |-> "None",
              ret |-> [kind |-> "Connection", server_hostname |-> host,
                       http_path |-> http_path, access_token |-> token],
              ev |-> <<"_get_sql_connection", "sql.connect">>]

\* _get_spark_session: both branches call DatabricksSession.builder.getOrCreate()
_get_spark_session(e, ext) ==
    IF ext.fail = "client"
    THEN [exc |-> "SessionError", ret |-> NoClient,
          ev |-> <<"_get_spark_session", "getOrCreate">>]
    ELSE [exc |-> "None", ret |-> [kind |-> "Session"],
          ev |-> <<"_get_spark_session", "getOrCreate">>]

\* property connection remembering a failed construction in self._connection
ConnectionBuilt_KeepsFailure(d, g) ==
    IF g.exc # "None"
    THEN [self |-> [d.self EXCEPT !._connection = [kind |-> "Failed"]],
          exc |-> g.exc, ret |-> NoClient, ev |-> <<DetectEv(d)>> \o g.ev]
    ELSE [self |-> [d.self EXCEPT !._connection = g.ret], exc |-> "None",
          ret |-> g.ret, ev |-> <<DetectEv(d)>> \o g.ev]

\* property connection, once the client is built or has failed to build;
\* d is the result of _detect_connection_type, g that of _get_sql_connection
ConnectionBuilt(d, g) ==
    IF g.exc # "None"
    THEN [self |-> d.self, exc |-> g.exc, ret |-> NoClient,
          ev |-> <<DetectEv(d)>> \o g.ev]
    ELSE [self |-> [d.self EXCEPT !._connection = g.ret], exc |-> "None",
          ret |-> g.ret, ev |-> <<DetectEv(d)>> \o g.ev]

\* property connection building the client whatever the mode
ConnectionInit_AnyMode(d, e, ext) ==
    ConnectionBuilt(d, _get_sql_connection(e, ext))

\* property connection, when self._connection is None
ConnectionInit(d, e, ext) ==
    IF ~d.ret
    THEN [self |-> d.self, exc |-> "None", ret |-> d.self._connection,
          ev |-> <<DetectEv(d)>>]
    ELSE ConnectionBuilt(d, _get_sql_connection(e, ext))

\* property connection: `self._connection is None and self._detect_connection_type()`
connection(self, e, ext) ==
    IF self._connection # NoClient
    THEN [self |-> self, exc |-> "None", ret |-> self._connection, ev |-> <<>>]
    ELSE ConnectionInit(_detect_connection_type(self, e), e, ext)

\* property spark, once the session is built or has failed to build
SparkBuilt(d, g) ==
    IF g.exc # "None"
    THEN [self |-> d.self, exc |-> g.exc, ret |-> NoClient,
          ev |-> <<DetectEv(d)>> \o g.ev]
    ELSE [self |-> [d.self EXCEPT !._spark = g.ret], exc |-> "None",
          ret |-> g.ret, ev |-> <<DetectEv(d)>> \o g.ev]

\* property spark, when self._spark is None
SparkInit(d, e, ext) ==
    IF d.ret
    THEN [self |-> d.self, exc |-> "None", ret |-> d.self._spark,
          ev |-> <<DetectEv(d)>>]
    ELSE SparkBuilt(d, _get_spark_session(e, ext))

\* property spark: `self._spark is None and not self._detect_connection_type()`
spark(self, e, ext) ==
    IF self._spark # NoClient
    THEN [self |-> self, exc |-> "None", ret |-> self._spark, ev |-> <<>>]
    ELSE SparkInit(_detect_connection_type(self, e), e, ext)

----------------------------------------------------------------------------
(* Tables *)

\* cells: a native number, an opaque numeric object (decimal.Decimal), a str
\* of characters, None, and NaN
Num(n)   == [k |-> "num",  v |-> n, s |-> <<>>]
Dec(n)   == [k |-> "dec",  v |-> n, s |-> <<>>]
Str(str) == [k |-> "str",  v |-> 0, s |-> str]
NoneCell == [k |-> "None", v |-> 0, s |-> <<>>]
NaN      == [k |-> "nan",  v |-> 0, s |-> <<>>]

DigitValue(ch) == CASE ch = "0" -> 0 [] ch = "1" -> 1 [] ch = "2" -> 2 [] OTHER -> -1

\* the number a str of digits denotes, -1 when it is not a number
RECURSIVE ParseDigits(_)
ParseDigits(str) ==
    IF Len(str) = 0 THEN -1
    ELSE LET d == DigitValue(str[Len(str)])
         IN  IF d < 0 THEN -1
             ELSE IF Len(str) = 1 THEN d
             ELSE LET r == ParseDigits(SubSeq(str, 1, Len(str) - 1))
                  IN  IF r < 0 THEN -1 ELSE 10 * r + d

\* pd.to_numeric(..., errors='coerce') on one cell
ToNumericCell(c) ==
    CASE c.k = "num" -> c
      [] c.k = "dec" -> Num(c.v)
      [] c.k = "str" -> IF ParseDigits(c.s) >= 0 THEN Num(ParseDigits(c.s)) ELSE NaN
      [] OTHER       -> NaN

\* pd.to_numeric(column, errors='coerce')
to_numeric(cells) == [i \in 1..Len(cells) |-> ToNumericCell(cells[i])]

\* converted.isna().all(): True of a column with no rows
AllNaN(cells) == \A i \in 1..Len(cells) : cells[i].k = "nan"

\* the dtype pandas infers for a column built from Python values
InferDtype(cells) ==
    IF Len(cells) = 0 THEN "object"
    ELSE IF \A i \in 1..Len(cells) : cells[i].k = "num" THEN "int64"
    ELSE IF /\ \A i \in 1..Len(cells) : cells[i].k \in {"num", "nan", "None"}
            /\ \E i \in 1..Len(cells) : cells[i].k \in {"num", "nan"}
         THEN "float64"
    ELSE "object"

\* the cells of a column of the inferred dtype: None becomes NaN in a float column
AsDtype(cells, dtype) ==
    IF dtype = "float64"
    THEN [i \in 1..Len(cells) |-> IF cells[i].k = "None" THEN NaN ELSE cells[i]]
    ELSE cells

\* a column as pandas holds it
Column(name, cells) ==
    [name |-> name, dtype |-> InferDtype(cells),
     cells |-> AsDtype(cells, InferDtype(cells))]

\* pd.DataFrame(data, columns=columns): rows of tuples to named columns
DataFrame(data, columns) ==
    [i \in 1..Len(columns) |->
        Column(columns[i], [r \in 1..Len(data) |-> data[r][i]])]

\* df.to_dict('list') followed by pd.DataFrame(dict): a dict keeps one entry
\* per column name, at the position of the first and with the values of the last
FirstIndex(df, name) == CHOOSE i \in 1..Len(df) :
    df[i].name = name /\ \A j \in 1..(i - 1) : df[j].name # name
LastIndex(df, name) == CHOOSE i \in 1..Len(df) :
    df[i].name = name /\ \A j \in (i + 1)..Len(df) : df[j].name # name
RECURSIVE FirstOccurrences(_, _)
FirstOccurrences(df, i) ==
    IF i > Len(df) THEN <<>>
    ELSE IF FirstIndex(df, df[i].name) = i
         THEN <<i>> \o FirstOccurrences(df, i + 1)
         ELSE FirstOccurrences(df, i + 1)
ThroughDict(df) ==
    LET keys == FirstOccurrences(df, 1)
    IN  [j \in 1..Len(keys) |->
            Column(df[keys[j]].name, df[LastIndex(df, df[keys[j]].name)].cells)]

\* the loop body using the conversion only when no cell failed to parse
ConvertColumn_UnlessAnyNaN(col) ==
    IF col.dtype = "object"
    THEN LET converted == to_numeric(col.cells)
         IN  IF \A i \in 1..Len(converted) : converted[i].k # "nan"
             THEN [col EXCEPT !.cells = converted, !.dtype = InferDtype(converted)]
             ELSE col
    ELSE col

\* the loop body of _convert_numeric_columns for one column
ConvertColumn(col) ==
    IF col.dtype = "object"
    THEN LET converted == to_numeric(col.cells)
         IN  IF ~AllNaN(converted)
             THEN [col EXCEPT !.cells = converted, !.dtype = InferDtype(converted)]
             ELSE col
    ELSE col

\* the loop leaving at the first column it converts
RECURSIVE ConvertUntilFirst(_, _)
ConvertUntilFirst(df, i) ==
    IF i > Len(df) THEN df
    ELSE IF ConvertColumn(df[i]) # df[i]
         THEN [df EXCEPT ![i] = ConvertColumn(df[i])]
         ELSE ConvertUntilFirst(df, i + 1)
_convert_numeric_columns_StopsAtFirst(df) == ConvertUntilFirst(ThroughDict(df), 1)

\* _convert_numeric_columns: the table it returns
_convert_numeric_columns(df) ==
    LET fresh == ThroughDict(df)
    IN  [i \in 1..Len(fresh) |-> ConvertColumn(fresh[i])]

\* two columns of the table carry the same name
RepeatedNames(df) ==
    \E i \in 1..Len(df) : \E j \in 1..Len(df) : i # j /\ df[i].name = df[j].name

\* ensure_numeric_columns: the table it returns; df[col] of a repeated name is
\* a DataFrame, which has no attribute dtype
ensure_numeric_columns(df) ==
    IF RepeatedNames(df)
    THEN [exc |-> "AttributeError", ret |-> <<>>]
    ELSE [exc |-> "None", ret |-> [i \in 1..Len(df) |-> ConvertColumn(df[i])]]

\* a call of _convert_numeric_columns on the object arg of the heap fr:
\* pd.DataFrame(df.to_dict('list')) is a new object, and the loop assigns the
\* columns of that object
CallConvertNumericColumns_InPlace(fr, arg) ==
    [frames |-> [fr EXCEPT ![arg] = _convert_numeric_columns(fr[arg])],
     exc |-> "None", ret |-> arg]
CallConvertNumericColumns(fr, arg) ==
    [frames |-> Append(fr, _convert_numeric_columns(fr[arg])),
     exc |-> "None", ret |-> Len(fr) + 1]

\* a call of ensure_numeric_columns on the object arg: df.copy() is a new
\* object, and the loop assigns the columns of that object; when the loop
\* raises, the copy is dropped
CallEnsureNumericColumns_InPlace(fr, arg) ==
    IF ensure_numeric_columns(fr[arg]).exc # "None"
    THEN [frames |-> fr, exc |-> ensure_numeric_columns(fr[arg]).exc, ret |-> 0]
    ELSE [frames |-> [fr EXCEPT ![arg] = ensure_numeric_columns(fr[arg]).ret],
          exc |-> "None", ret |-> arg]
CallEnsureNumericColumns(fr, arg) ==
    IF ensure_numeric_columns(fr[arg]).exc # "None"
    THEN [frames |-> fr, exc |-> ensure_numeric_columns(fr[arg]).exc, ret |-> 0]
    ELSE [frames |-> Append(fr, ensure_numeric_columns(fr[arg]).ret),
          exc |-> "None", ret |-> Len(fr) + 1]

----------------------------------------------------------------------------
(* Query Executor *)

\* what the backend does with one request: fail |-> "none", "client" (sql.connect
\* or getOrCreate raises) or "query" (the submitted query raises);
\* description and rows |-> what the cursor or the Spark result holds
Response(fail, description, rows) ==
    [fail |-> fail, description |-> description, rows |-> rows]

NoResult == <<>>

\* the WarehouseSQL branch without the call of _convert_numeric_columns
CursorResult_NotConverted(ext) ==
    [ret |-> DataFrame(ext.rows, ext.description), ev |-> <<>>]

\* the WarehouseSQL branch after cursor.execute: description and fetchall into
\* a DataFrame, then _convert_numeric_columns
CursorResult(ext) ==
    [ret |-> _convert_numeric_columns(DataFrame(ext.rows, ext.description)),
     ev |-> <<"_convert_numeric_columns">>]

\* the WarehouseSQL branch submitting the query a second time when the first
\* submission raised
ExecuteWithCursor_RetriesOnce(d, c, query, ext) ==
    IF c.exc # "None"
    THEN [self |-> c.self, exc |-> c.exc, ret |-> NoResult,
          ev |-> <<"_execute_query", DetectEv(d)>> \o c.ev, sent |-> <<>>]
    ELSE IF ext.fail = "query"
    THEN [self |-> c.self, exc |-> "QueryError", ret |-> NoResult,
          ev |-> <<"_execute_query", DetectEv(d)>> \o c.ev
                    \o <<"cursor.execute", "cursor.execute">>,
          sent |-> <<query, query>>]
    ELSE [self |-> c.self, exc |-> "None",
          ret |-> CursorResult(ext).ret,
          ev |-> <<"_execute_query", DetectEv(d)>> \o c.ev \o <<"cursor.execute">>
                    \o CursorResult(ext).ev,
          sent |-> <<query>>]

\* the WarehouseSQL branch of _execute_query; d is the result of
\* _detect_connection_type, c that of the connection property
ExecuteWithCursor(d, c, query, ext) ==
    IF c.exc # "None"
    THEN [self |-> c.self, exc |-> c.exc, ret |-> NoResult,
          ev |-> <<"_execute_query", DetectEv(d)>> \o c.ev, sent |-> <<>>]
    ELSE IF ext.fail = "query"
    THEN [self |-> c.self, exc |-> "QueryError", ret |-> NoResult,
          ev |-> <<"_execute_query", DetectEv(d)>> \o c.ev \o <<"cursor.execute">>,
          sent |-> <<query>>]
    ELSE [self |-> c.self, exc |-> "None",
          ret |-> CursorResult(ext).ret,
          ev |-> <<"_execute_query", DetectEv(d)>> \o c.ev \o <<"cursor.execute">>
                    \o CursorResult(ext).ev,
          sent |-> <<query>>]

\* the Databricks Connect branch of _execute_query: self.spark.sql(query).toPandas()
ExecuteWithSpark(d, sp, query, ext) ==
    IF sp.exc # "None"
    THEN [self |-> sp.self, exc |-> sp.exc, ret |-> NoResult,
          ev |-> <<"_execute_query", DetectEv(d)>> \o sp.ev, sent |-> <<>>]
    ELSE IF ext.fail = "query"
    THEN [self |-> sp.self, exc |-> "QueryError", ret |-> NoResult,
          ev |-> <<"_execute_query", DetectEv(d)>> \o sp.ev \o <<"spark.sql">>,
          sent |-> <<query>>]
    ELSE [self |-> sp.self, exc |-> "None",
          ret |-> DataFrame(ext.rows, ext.description),
          ev |-> <<"_execute_query", DetectEv(d)>> \o sp.ev \o <<"spark.sql", "toPandas">>,
          sent |-> <<query>>]

\* _execute_query after its call of _detect_connection_type returned d
ExecuteAs(d, e, query, ext) ==
    IF d.ret
    THEN ExecuteWithCursor(d, connection(d.self, e, ext), query, ext)
    ELSE ExecuteWithSpark(d, spark(d.self, e, ext), query, ext)

\* _execute_query: [self, exc, ret, ev = the calls made, sent = the SQL submitted]
_execute_query(self, e, query, ext) ==
    ExecuteAs(_detect_connection_type(self, e), e, query, ext)

\* execute_custom_query memoized on its SQL text
execute_custom_query_Memoized(self, e, query, ext) ==
    IF last.op = "execute_custom_query" /\ last.query = query /\ last.exc = "None"
    THEN [self |-> self, exc |-> "None", ret |-> last.ret,
          ev |-> <<"cache hit">>, sent |-> <<>>]
    ELSE _execute_query(self, e, query, ext)

\* execute_custom_query
execute_custom_query(self, e, query, ext) == _execute_query(self, e, query, ext)

\* health_check catching only the failure of the query itself; r is the
\* result of _execute_query
HealthResult_CatchesQueryErrorOnly(r) ==
    [self |-> r.self,
     exc |-> IF r.exc = "QueryError" THEN "None" ELSE r.exc,
     ret |-> (r.exc = "None"),
     ev |-> <<"health_check">> \o r.ev, sent |-> r.sent]

\* health_check: True when _execute_query returned, `except Exception: return False`
HealthResult(r) ==
    [self |-> r.self, exc |-> "None", ret |-> (r.exc = "None"),
     ev |-> <<"health_check">> \o r.ev, sent |-> r.sent]

\* health_check
HealthQuery == [template |-> "SELECT 1 as health"]
health_check(self, e, ext) == HealthResult(_execute_query(self, e, HealthQuery, ext))

\* get_connection_info
get_connection_info(self, e) ==
    LET d == _detect_connection_type(self, e)
    IN  [self |-> d.self, exc |-> "None",
         ret |-> IF d.ret THEN "SQL Warehouse (Serverless)"
                 ELSE "Classic Cluster (Databricks Connect)",
         ev |-> <<"get_connection_info", DetectEv(d)>>, sent |-> <<>>]

----------------------------------------------------------------------------
(* Metric Catalog and Result Cache *)

TTL == 3600

Metrics ==
    {"get_orders_summary", "get_kpi_metrics", "get_orders_by_status",
     "get_orders_by_priority", "get_top_customers", "get_revenue_by_region",
     "get_market_segment_analysis", "get_top_parts_by_revenue",
     "get_supplier_performance", "get_monthly_trend_by_segment",
     "get_order_fulfillment_metrics"}

\* the methods whose SQL ends in LIMIT {limit}
RankingMetrics ==
    {"get_top_customers", "get_top_parts_by_revenue", "get_supplier_performance"}

DefaultLimit == 10

\* the SQL text a metric method builds: its template and, for the ranking
\* methods, the value interpolated after LIMIT
MetricQuery(m, args) ==
    IF m \in RankingMetrics
    THEN [template |-> m, limit |-> IF args = <<>> THEN DefaultLimit ELSE args[1]]
    ELSE [template |-> m]

\* number of rows of a table
Rows(df) == IF Len(df) = 0 THEN 0 ELSE Len(df[1].cells)

\* a metric method that catches the executor's error and returns no rows
MetricResult_SwallowsError(m, r) == [r EXCEPT !.exc = "None"]

\* what a metric method returns from the result r of _execute_query;
\* get_kpi_metrics returns result.iloc[0].to_dict()
MetricResult(m, r) ==
    IF m = "get_kpi_metrics" /\ r.exc = "None"
    THEN IF Rows(r.ret) = 0
         THEN [r EXCEPT !.exc = "IndexError", !.ret = NoResult]
         ELSE [r EXCEPT !.ret = [i \in 1..Len(r.ret) |->
                                    <<r.ret[i].name, r.ret[i].cells[1]>>]]
    ELSE r

\* the body of a metric method
MetricBody(self, e, m, args, ext) ==
    MetricResult(m, _execute_query(self, e, MetricQuery(m, args), ext))

\* a key that leaves the hashed arguments out
CacheKey_WithoutArgs(m, args) == <<m, <<>>>>

\* the key st.cache_data derives from the function and its hashed arguments
\* (_self is not hashed)
CacheKey(m, args) == <<m, args>>

EmptyCache == [k \in {} |-> <<>>]
NoEntry == [kind |-> "None"]

\* a lookup that still finds an entry whose age equals the TTL
Lookup_AtTTL(ch, key, t) ==
    IF key \in DOMAIN ch /\ t - ch[key].created <= TTL THEN ch[key] ELSE NoEntry

\* the entry a lookup finds at time t: an entry whose age has reached the TTL
\* is not found
Lookup(ch, key, t) ==
    IF key \in DOMAIN ch /\ t - ch[key].created < TTL THEN ch[key] ELSE NoEntry

\* the entry stored for key, whatever its age
Stored(ch, key) == IF key \in DOMAIN ch THEN ch[key] ELSE NoEntry

\* the cache after storing value under key at time t; sql is the query that
\* computed the value
Store(ch, key, value, t, sql) ==
    [k \in (DOMAIN ch) \cup {key} |->
        IF k = key THEN [value |-> value, created |-> t, sql |-> sql] ELSE ch[k]]

\* a call that found the live entry hit: the stored value, no execution
CacheHit(self, ch, hit) ==
    [self |-> self, cache |-> ch, exc |-> "None", ret |-> hit.value,
     ev |-> <<"cache hit">>, sent |-> <<>>, computed_for |-> hit.sql]

\* a call that found no live entry and ran the body, which returned r: store
\* the result unless the body raised
CacheMiss(ch, key, t, sql, r) ==
    IF r.exc # "None"
    THEN [self |-> r.self, cache |-> ch, exc |-> r.exc, ret |-> NoResult,
          ev |-> <<"cache miss">> \o r.ev, sent |-> r.sent,
          computed_for |-> NoEntry]
    ELSE [self |-> r.self, cache |-> Store(ch, key, r.ret, t, sql),
          exc |-> "None", ret |-> r.ret,
          ev |-> <<"cache miss">> \o r.ev \o <<"cache store">>,
          sent |-> r.sent, computed_for |-> sql]

\* a metric method under @st.cache_data(ttl=3600): return the live entry, or
\* run the body and store its result
cache_data(self, e, ch, t, m, args, ext) ==
    IF Lookup(ch, CacheKey(m, args), t) # NoEntry
    THEN CacheHit(self, ch, Lookup(ch, CacheKey(m, args), t))
    ELSE CacheMiss(ch, CacheKey(m, args), t, MetricQuery(m, args),
                   MetricBody(self, e, m, args, ext))

\* a clear that drops only the entries whose age has reached the TTL
cache_data_clear_ExpiredOnly(ch) ==
    [k \in {k \in DOMAIN ch : now - ch[k].created < TTL} |-> ch[k]]

\* st.cache_data.clear()
cache_data_clear(ch) == EmptyCache

----------------------------------------------------------------------------
(* Inputs *)

MaxTime  == 5400     \* the clock stops here
TickStep == 1800     \* seconds between two readings of the clock

\* backend responses: two result sets, and the two ways a request can fail
OkResponses ==
    {Response("none", <<"total">>, << <<Dec(1)>> >>),
     Response("none", <<"name", "total">>, << <<Str(<<"x">>), Dec(2)>> >>),
     Response("none", <<"total", "total">>, << <<Str(<<"x">>), Dec(1)>>,
                                               <<Str(<<"y">>), Dec(2)>> >>)}
ClientOk    == Response("none", <<>>, <<>>)
ClientFails == Response("client", <<>>, <<>>)
QueryFails  == Response("query", <<>>, <<>>)
HealthRow   == Response("none", <<"health">>, << <<Num(1)>> >>)
MetricRows  == Response("none", <<"name", "total">>, << <<Str(<<"x">>), Dec(2)>> >>)

\* the tables a cursor can hand over: up to MaxCols columns and up to MaxRows
\* rows. A column of a SQL result has one type: its cells are numbers or
\* NULL, decimals or NULL, or strings. Only the equality of names matters, so
\* the first column is named "a"; later columns repeat it or not.
MaxRows == 2
MaxCols == 2
ColumnNames == {"a", "b"}
ColumnTypes == {"int", "decimal", "string"}
CellsOf(type) ==
    CASE type = "int"     -> {Num(1), NoneCell}
      [] type = "decimal" -> {Dec(2), NoneCell}
      [] type = "string"  -> {Str(<<"1">>), Str(<<"a">>)}
ColumnsOf(r) == UNION {[1..r -> CellsOf(type)] : type \in ColumnTypes}
Descriptions ==
    UNION {{d \in [1..c -> ColumnNames] : c > 0 => d[1] = "a"} : c \in 0..MaxCols}
\* cursor.fetchall() for a description of c columns: r rows of c cells
Fetched(c) ==
    UNION {{[i \in 1..r |-> [j \in 1..c |-> cols[j][i]]] :
                cols \in [1..c -> ColumnsOf(r)]} : r \in 0..MaxRows}
CursorResults == UNION {Fetched(Len(d)) \X {d} : d \in Descriptions}
Tables == {DataFrame(res[1], res[2]) : res \in CursorResults}

\* the text typed into the explorer
CustomQueries == {[template |-> "custom", text |-> "SELECT * FROM samples.tpch.orders LIMIT 10"]}

\* the metric calls the dashboard makes here: method and hashed arguments
MetricCalls ==
    {<<"get_kpi_metrics", <<>>>>,
     <<"get_top_customers", <<5>>>>,
     <<"get_top_customers", <<10>>>>,
     <<"get_top_parts_by_revenue", <<5>>>>}

----------------------------------------------------------------------------
(* State machine *)

Idle == [op |-> "idle"]

\* x occurs in seq; the number of times it does
Has(seq, x) == \E i \in 1..Len(seq) : seq[i] = x
Count(seq, x) == Cardinality({i \in 1..Len(seq) : seq[i] = x})

ThisSelf == Self(_use_sql_connector, _connection, _spark)

\* the data layer's fields after a call that returned r
Commit(r) ==
    /\ _use_sql_connector' = r.self._use_sql_connector
    /\ _connection' = r.self._connection
    /\ _spark' = r.self._spark

\* reading a property submits no SQL
PropertyRead(c) ==
    [self |-> c.self, exc |-> c.exc, ret |-> c.ret, ev |-> c.ev, sent |-> <<>>]

\* the request before this one, or before the changes of the environment
\* that led here, ended in the configuration error
AfterConfigError ==
    IF last.op = "idle"
    THEN "config_error" \in DOMAIN last /\ last.config_error
    ELSE "ev" \in DOMAIN last /\ Has(last.ev, "raise ValueError")

\* the record of a request on the data layer
Request(op, query, ext, r) ==
    [op |-> op, query |-> query, ext |-> ext, pre |-> ThisSelf,
     exc |-> r.exc, ret |-> r.ret, ev |-> r.ev, sent |-> r.sent,
     after_config_error |-> AfterConfigError]

\* the record of a change of the environment
EnvChanged == [op |-> "idle", config_error |-> AfterConfigError]

\* the script threads of the sessions, which share the data layer that
\* get_data_layer returns; none is inside a client property
MaxThreads == 2
Threads == 1..MaxThreads
Outside == [at |-> "outside", prop |-> "none", client |-> NoClient, made |-> FALSE]
NoCallers == [t \in Threads |-> Outside]

\* no script run of main under way
NoRun == [at |-> "none", health |-> "None", tabs |-> <<>>, order |-> <<>>,
          errors |-> <<>>]

\* DatabricksDataLayer() as get_data_layer builds it, nothing cached, clock at 0
InitLayer ==
    /\ _use_sql_connector = "None"
    /\ _connection = NoClient
    /\ _spark = NoClient
    /\ cache = EmptyCache
    /\ now = 0
    /\ frames = <<>>
    /\ callers = NoCallers
    /\ run = NoRun
    /\ last = Idle

Init == env = NoEnv /\ InitLayer

\* os.environ[name] = value
SetEnv ==
    \E name \in EnvNames : \E value \in EnvValues(name) :
        /\ getenv(env, name, None) # value
        /\ env' = SetVar(env, name, value)
        /\ last' = EnvChanged
        /\ UNCHANGED <<_use_sql_connector, _connection, _spark, cache, now, frames, callers, run>>

\* del os.environ[name]
UnsetEnv ==
    \E name \in DOMAIN env :
        /\ env' = UnsetVar(env, name)
        /\ last' = EnvChanged
        /\ UNCHANGED <<_use_sql_connector, _connection, _spark, cache, now, frames, callers, run>>

GetConnectionInfo ==
    \E r \in {get_connection_info(ThisSelf, env)} :
        /\ Commit(r)
        /\ last' = Request("get_connection_info", <<>>, ClientOk, r)
        /\ UNCHANGED <<env, cache, now, frames, callers, run>>

ReadConnection ==
    \E ext \in {ClientOk, ClientFails} :
        \E c \in {connection(ThisSelf, env, ext)} :
            /\ Commit(c)
            /\ last' = Request("connection", <<>>, ext, PropertyRead(c))
            /\ UNCHANGED <<env, cache, now, frames, callers, run>>

ReadSpark ==
    \E ext \in {ClientOk, ClientFails} :
        \E c \in {spark(ThisSelf, env, ext)} :
            /\ Commit(c)
            /\ last' = Request("spark", <<>>, ext, PropertyRead(c))
            /\ UNCHANGED <<env, cache, now, frames, callers, run>>

HealthCheck ==
    \E ext \in {HealthRow, ClientFails, QueryFails} :
        \E r \in {health_check(ThisSelf, env, ext)} :
            /\ Commit(r)
            /\ last' = Request("health_check", HealthQuery, ext, r)
            /\ UNCHANGED <<env, cache, now, frames, callers, run>>

ExecuteCustomQuery ==
    \E query \in CustomQueries : \E ext \in OkResponses \cup {ClientFails, QueryFails} :
        \E r \in {execute_custom_query(ThisSelf, env, query, ext)} :
            /\ Commit(r)
            /\ last' = Request("execute_custom_query", query, ext, r)
            /\ UNCHANGED <<env, cache, now, frames, callers, run>>

CallMetric ==
    \E call \in MetricCalls : \E ext \in {MetricRows, ClientFails, QueryFails} :
        \E r \in {cache_data(ThisSelf, env, cache, now, call[1], call[2], ext)} :
            /\ Commit(r)
            /\ cache' = r.cache
            /\ last' = [op |-> "metric", m |-> call[1], args |-> call[2],
                        query |-> MetricQuery(call[1], call[2]), ext |-> ext,
                        pre |-> ThisSelf, at |-> now,
                        pre_entry |-> Stored(cache, CacheKey(call[1], call[2])),
                        exc |-> r.exc, ret |-> r.ret, ev |-> r.ev, sent |-> r.sent,
                        computed_for |-> r.computed_for]
            /\ UNCHANGED <<env, now, frames, callers, run>>

\* the Refresh Cache button
RefreshCache ==
    /\ cache' = cache_data_clear(cache)
    /\ last' = [op |-> "clear", pre_keys |-> DOMAIN cache]
    /\ UNCHANGED <<env, _use_sql_connector, _connection, _spark, now, frames, callers, run>>

\* time passes
Tick ==
    /\ now + TickStep <= MaxTime
    /\ now' = now + TickStep
    /\ last' = Idle
    /\ UNCHANGED <<env, _use_sql_connector, _connection, _spark, cache, frames, callers, run>>

\* the resolver and the executor under a changing environment
Next ==
    \/ SetEnv
    \/ UnsetEnv
    \/ GetConnectionInfo
    \/ ReadConnection
    \/ ReadSpark
    \/ HealthCheck
    \/ ExecuteCustomQuery

Spec == Init /\ [][Next]_vars

\* three deployments: a warehouse fully configured, the managed runtime, and a
\* warehouse whose token is missing
Deployments ==
    {SetVar(SetVar(SetVar(NoEnv, HOST, <<"https://", "h">>), TOKEN, <<"x">>),
            WAREHOUSE_ID, <<"x">>),
     SetVar(NoEnv, RUNTIME_VERSION, <<"x">>),
     SetVar(SetVar(NoEnv, HOST, <<"h">>), HTTP_PATH, <<"x">>)}

InitCache == env \in Deployments /\ InitLayer

\* the dashboard over a fixed deployment: cached metrics, the clock, the
\* Refresh Cache button and the explorer
NextCache ==
    \/ CallMetric
    \/ RefreshCache
    \/ Tick
    \/ ExecuteCustomQuery

SpecCache == InitCache /\ [][NextCache]_vars

\* the objects still referenced after a call that returned r: the one that
\* was passed and, when the call returned another object, the one returned
Referenced(r, arg) ==
    IF r.exc = "None" /\ r.ret # arg
    THEN <<r.frames[arg], r.frames[r.ret]>>
    ELSE <<r.frames[arg]>>

\* the record of a call of a normalizer: the table passed as it was before
\* the call, where that table came from, and whether the call returned an
\* object other than the one passed
NormalizerCall(op, arg, r) ==
    [op |-> op, passed |-> frames[arg],
     arg_from |-> IF arg = 2 THEN last.op ELSE "earlier",
     exc |-> r.exc, fresh |-> (r.exc = "None" /\ r.ret # arg)]

\* a call of _convert_numeric_columns on a table alive in the process
ConvertNumericColumns ==
    \E arg \in DOMAIN frames :
        \E r \in {CallConvertNumericColumns(frames, arg)} :
            /\ frames' = Referenced(r, arg)
            /\ last' = NormalizerCall("_convert_numeric_columns", arg, r)
            /\ UNCHANGED <<env, _use_sql_connector, _connection, _spark, cache, now, callers, run>>

\* a call of ensure_numeric_columns on a table alive in the process
EnsureNumericColumns ==
    \E arg \in DOMAIN frames :
        \E r \in {CallEnsureNumericColumns(frames, arg)} :
            /\ frames' = Referenced(r, arg)
            /\ last' = NormalizerCall("ensure_numeric_columns", arg, r)
            /\ UNCHANGED <<env, _use_sql_connector, _connection, _spark, cache, now, callers, run>>

\* one table built from a cursor, then the two normalizers applied to the
\* tables alive
InitTables ==
    /\ env = NoEnv
    /\ _use_sql_connector = "None"
    /\ _connection = NoClient
    /\ _spark = NoClient
    /\ cache = EmptyCache
    /\ now = 0
    /\ frames \in {<<t>> : t \in Tables}
    /\ callers = NoCallers
    /\ run = NoRun
    /\ last = Idle

NextTables ==
    \/ ConvertNumericColumns
    \/ EnsureNumericColumns

SpecTables == InitTables /\ [][NextTables]_vars

----------------------------------------------------------------------------
(* Presentation Layer: the tabs *)

\* st.slider(label, min_value, max_value, value): the widget returns an int
\* between min_value and max_value, value until the user moves it
TopCustomersSlider == [min_value |-> 5, max_value |-> 25, value |-> 10]
TopProductsSlider  == [min_value |-> 5, max_value |-> 20, value |-> 10]
TopSuppliersSlider == [min_value |-> 5, max_value |-> 20, value |-> 10]
slider_Unbounded(widget) == 0..(widget.max_value + 1)
slider(widget) == widget.min_value..widget.max_value

\* what the backend does with the query of one section
SectionResponses == {MetricRows, QueryFails}

\* a tab before its first section: the data layer and the cache as they are
TabStart == [self |-> ThisSelf, cache |-> cache, out |-> <<>>]

\* one section of a tab, `try: ... except Exception as e: st.error(...)`,
\* after its metric call returned r: the chart, or the inline error
Section(s, name, m, args, r) ==
    [self |-> r.self, cache |-> r.cache,
     out |-> Append(s.out,
                [section |-> name, m |-> m, args |-> args,
                 query |-> MetricQuery(m, args),
                 show |-> IF r.exc = "None" THEN "chart" ELSE "st.error",
                 exc |-> r.exc, ev |-> r.ev, sent |-> r.sent])]

\* a section that passes the result through ensure_numeric_columns inside
\* its try block
NumericSection(s, name, m, args, r) ==
    IF r.exc = "None" /\ ensure_numeric_columns(r.ret).exc # "None"
    THEN Section(s, name, m, args, [r EXCEPT !.exc = ensure_numeric_columns(r.ret).exc])
    ELSE Section(s, name, m, args, r)

\* render_overview_tab after the KPI section s1: `return` in its except
\* clause, s4 otherwise
OverviewAfterKpis(s1, s4) == IF s1.out[1].show = "st.error" THEN s1 ELSE s4

\* main's `with tabs[i]: render_..._tab(data_layer)` in their order
MainTabs == <<"overview", "customers", "geography", "products", "explorer">>
TabAfter(tab) ==
    IF tab = "explorer" THEN "done"
    ELSE MainTabs[1 + CHOOSE i \in 1..Len(MainTabs) : MainTabs[i] = tab]

\* the run of main after the tab it was at returned: the calls the tab made
\* on the data layer and the sections that showed st.error; a tab rendered
\* outside a run of main leaves none
AfterTab(r, tab, s) ==
    IF r.at # tab THEN r
    ELSE [r EXCEPT !.at = TabAfter(tab),
                   !.tabs = Append(@, tab),
                   !.order = @ \o [i \in 1..Len(s.out) |-> s.out[i].m],
                   !.errors = @ \o SelectSeq([i \in 1..Len(s.out) |->
                                   IF s.out[i].show = "st.error"
                                   THEN s.out[i].section ELSE "-"],
                                 LAMBDA x : x # "-")]

\* the record of a rendered tab
Rendered(tab, s) == [op |-> "render", tab |-> tab, out |-> s.out]

RenderDone(tab, s) ==
    /\ Commit(s)
    /\ cache' = s.cache
    /\ last' = Rendered(tab, s)
    /\ run' = AfterTab(run, tab, s)
    /\ UNCHANGED <<env, now, frames, callers>>

\* render_overview_tab
RenderOverviewTab ==
    \E ext \in [1..4 -> SectionResponses] :
    \E r1 \in {cache_data(ThisSelf, env, cache, now, "get_kpi_metrics", <<>>, ext[1])} :
    \E s1 \in {Section(TabStart, "kpis", "get_kpi_metrics", <<>>, r1)} :
    \E r2 \in {cache_data(s1.self, env, s1.cache, now, "get_orders_summary", <<>>, ext[2])} :
    \E s2 \in {Section(s1, "trend", "get_orders_summary", <<>>, r2)} :
    \E r3 \in {cache_data(s2.self, env, s2.cache, now, "get_orders_by_status", <<>>, ext[3])} :
    \E s3 \in {Section(s2, "status", "get_orders_by_status", <<>>, r3)} :
    \E r4 \in {cache_data(s3.self, env, s3.cache, now, "get_orders_by_priority", <<>>, ext[4])} :
    \E s4 \in {Section(s3, "priority", "get_orders_by_priority", <<>>, r4)} :
        RenderDone("overview", OverviewAfterKpis(s1, s4))

\* render_customers_tab with the slider at top_n
render_customers_tab(top_n) ==
    \E ext \in [1..3 -> SectionResponses] :
    \E r1 \in {cache_data(ThisSelf, env, cache, now, "get_top_customers", <<top_n>>, ext[1])} :
    \E s1 \in {Section(TabStart, "top customers", "get_top_customers", <<top_n>>, r1)} :
    \E r2 \in {cache_data(s1.self, env, s1.cache, now, "get_market_segment_analysis", <<>>, ext[2])} :
    \E s2 \in {Section(s1, "segments", "get_market_segment_analysis", <<>>, r2)} :
    \E r3 \in {cache_data(s2.self, env, s2.cache, now, "get_monthly_trend_by_segment", <<>>, ext[3])} :
    \E s3 \in {Section(s2, "segment trend", "get_monthly_trend_by_segment", <<>>, r3)} :
        RenderDone("customers", s3)

\* render_geography_tab
RenderGeographyTab ==
    \E ext \in SectionResponses :
    \E r1 \in {cache_data(ThisSelf, env, cache, now, "get_revenue_by_region", <<>>, ext)} :
    \E s1 \in {NumericSection(TabStart, "regions", "get_revenue_by_region", <<>>, r1)} :
        RenderDone("geography", s1)

\* render_products_tab with the sliders at top_n and top_suppliers
render_products_tab(top_n, top_suppliers) ==
    \E ext \in [1..3 -> SectionResponses] :
    \E r1 \in {cache_data(ThisSelf, env, cache, now, "get_top_parts_by_revenue", <<top_n>>, ext[1])} :
    \E s1 \in {Section(TabStart, "top products", "get_top_parts_by_revenue", <<top_n>>, r1)} :
    \E r2 \in {cache_data(s1.self, env, s1.cache, now, "get_supplier_performance", <<top_suppliers>>, ext[2])} :
    \E s2 \in {NumericSection(s1, "suppliers", "get_supplier_performance", <<top_suppliers>>, r2)} :
    \E r3 \in {cache_data(s2.self, env, s2.cache, now, "get_order_fulfillment_metrics", <<>>, ext[3])} :
    \E s3 \in {Section(s2, "fulfillment", "get_order_fulfillment_metrics", <<>>, r3)} :
        RenderDone("products", s3)

\* the customers and products tabs with their sliders where they start
RenderCustomersTab == render_customers_tab(TopCustomersSlider.value)
RenderProductsTab ==
    render_products_tab(TopProductsSlider.value, TopSuppliersSlider.value)

\* the customers and products tabs as first rendered after the start, nothing
\* cached yet, their sliders at any position
FirstRenderCustomersTab ==
    /\ last = Idle /\ cache = EmptyCache
    /\ \E top_n \in slider(TopCustomersSlider) : render_customers_tab(top_n)
FirstRenderProductsTab ==
    /\ last = Idle /\ cache = EmptyCache
    /\ \E top_n \in slider(TopProductsSlider) :
          \E top_suppliers \in slider(TopSuppliersSlider) :
              render_products_tab(top_n, top_suppliers)

NextSliders ==
    \/ FirstRenderCustomersTab
    \/ FirstRenderProductsTab

SpecSliders == InitCache /\ [][NextSliders]_vars

\* the four metric tabs over a fixed deployment, and the Refresh Cache button
NextRender ==
    \/ RenderOverviewTab
    \/ RenderCustomersTab
    \/ RenderGeographyTab
    \/ RenderProductsTab
    \/ RefreshCache

SpecRender == InitCache /\ [][NextRender]_vars

----------------------------------------------------------------------------
(* Presentation Layer: main *)

\* main up to its tabs, after get_data_layer returned and health_check
\* returned r: the status indicator, then the Refresh Cache button, whose
\* st.rerun() ends the run
SidebarRendered(r, pressed) ==
    [NoRun EXCEPT !.at = IF pressed THEN "rerun" ELSE "overview",
                  !.health = IF r.ret THEN "True" ELSE "False",
                  !.order = <<"health_check">>]

\* a run of main starts and `from data_layer import get_data_layer` raises:
\* `except Exception as e: st.error(...); return`
MainWithoutDataLayer ==
    /\ run.at \in {"none", "done", "rerun", "st.error"}
    /\ run' = [NoRun EXCEPT !.at = "st.error"]
    /\ last' = [op |-> "main", exc |-> "ImportError"]
    /\ UNCHANGED <<env, _use_sql_connector, _connection, _spark, cache, now, frames, callers>>

\* a run of main starts: get_data_layer(), the sidebar with its health check
\* and its button
MainSidebar ==
    \E ext \in {HealthRow, ClientFails, QueryFails} : \E pressed \in BOOLEAN :
        \E r \in {health_check(ThisSelf, env, ext)} :
            /\ run.at \in {"none", "done", "rerun", "st.error"}
            /\ Commit(r)
            /\ cache' = IF pressed THEN cache_data_clear(cache) ELSE cache
            /\ run' = SidebarRendered(r, pressed)
            /\ last' = Request("health_check", HealthQuery, ext, r)
            /\ UNCHANGED <<env, now, frames, callers>>

MainOverviewTab  == run.at = "overview"  /\ RenderOverviewTab
MainCustomersTab == run.at = "customers" /\ RenderCustomersTab
MainGeographyTab == run.at = "geography" /\ RenderGeographyTab
MainProductsTab  == run.at = "products"  /\ RenderProductsTab

\* render_data_explorer_tab: the query runs when the Execute button was
\* pressed, inside try/except
MainExplorerTab ==
    \/ /\ run.at = "explorer"
       /\ run' = [run EXCEPT !.at = "done", !.tabs = Append(@, "explorer")]
       /\ last' = Rendered("explorer", [out |-> <<>>])
       /\ UNCHANGED <<env, _use_sql_connector, _connection, _spark, cache, now, frames, callers>>
    \/ \E query \in CustomQueries : \E ext \in SectionResponses :
         \E r \in {execute_custom_query(ThisSelf, env, query, ext)} :
            /\ run.at = "explorer"
            /\ Commit(r)
            /\ run' = [run EXCEPT !.at = "done", !.tabs = Append(@, "explorer"),
                                  !.order = Append(@, "execute_custom_query")]
            /\ last' = Request("execute_custom_query", query, ext, r)
            /\ UNCHANGED <<env, cache, now, frames, callers>>

\* the script run after run over a fixed deployment
NextMain ==
    \/ MainWithoutDataLayer
    \/ MainSidebar
    \/ MainOverviewTab
    \/ MainCustomersTab
    \/ MainGeographyTab
    \/ MainProductsTab
    \/ MainExplorerTab

SpecMain == InitCache /\ [][NextMain]_vars

----------------------------------------------------------------------------
(* Concurrent callers: the script threads read the client properties of the
   one data layer without a lock *)

\* the object a factory returned to thread t
Identified(c, t) == [kind |-> c.kind, of |-> c, by |-> t]

\* thread t moves to position at inside property prop
At(t, at, prop) == [callers EXCEPT ![t].at = at, ![t].prop = prop]

\* a thread starts reading data_layer.connection: the test
\* `self._connection is None and self._detect_connection_type()`
EnterConnection ==
    \E t \in Threads : \E d \in {_detect_connection_type(ThisSelf, env)} :
        /\ callers[t].at = "outside"
        /\ IF _connection # NoClient
           THEN /\ callers' = At(t, "return", "connection")
                /\ UNCHANGED _use_sql_connector
           ELSE /\ callers' = At(t, IF d.ret THEN "factory" ELSE "return", "connection")
                /\ _use_sql_connector' = d.self._use_sql_connector
        /\ last' = Idle
        /\ UNCHANGED <<env, _connection, _spark, cache, now, frames, run>>

\* a thread starts reading data_layer.spark: the test
\* `self._spark is None and not self._detect_connection_type()`
EnterSpark ==
    \E t \in Threads : \E d \in {_detect_connection_type(ThisSelf, env)} :
        /\ callers[t].at = "outside"
        /\ IF _spark # NoClient
           THEN /\ callers' = At(t, "return", "spark")
                /\ UNCHANGED _use_sql_connector
           ELSE /\ callers' = At(t, IF d.ret THEN "return" ELSE "factory", "spark")
                /\ _use_sql_connector' = d.self._use_sql_connector
        /\ last' = Idle
        /\ UNCHANGED <<env, _connection, _spark, cache, now, frames, run>>

\* the thread's call of _get_sql_connection or _get_spark_session ends: with
\* an exception, which leaves the property, or with a new client
RunFactory ==
    \E t \in Threads : \E ext \in {ClientOk, ClientFails} :
        \E g \in {IF callers[t].prop = "connection" THEN _get_sql_connection(env, ext)
                                                    ELSE _get_spark_session(env, ext)} :
            /\ callers[t].at = "factory"
            /\ callers' = IF g.exc # "None"
                          THEN [callers EXCEPT ![t].at = "outside", ![t].prop = "none"]
                          ELSE [callers EXCEPT ![t].at = "assign", ![t].made = TRUE,
                                               ![t].client = Identified(g.ret, t)]
            /\ last' = [op |-> "factory", thread |-> t, prop |-> callers[t].prop,
                        exc |-> g.exc]
            /\ UNCHANGED <<env, _use_sql_connector, _connection, _spark, cache, now, frames, run>>

\* `self._connection = ...` / `self._spark = ...`
AssignClient ==
    \E t \in Threads :
        /\ callers[t].at = "assign"
        /\ IF callers[t].prop = "connection"
           THEN _connection' = callers[t].client /\ UNCHANGED _spark
           ELSE _spark' = callers[t].client /\ UNCHANGED _connection
        /\ callers' = [callers EXCEPT ![t].at = "return", ![t].client = NoClient]
        /\ last' = [op |-> "assign", thread |-> t, prop |-> callers[t].prop,
                    replaced |-> IF callers[t].prop = "connection"
                                 THEN _connection ELSE _spark]
        /\ UNCHANGED <<env, _use_sql_connector, cache, now, frames, run>>

\* `return self._connection` / `return self._spark`
ReturnClient ==
    \E t \in Threads :
        /\ callers[t].at = "return"
        /\ callers' = [callers EXCEPT ![t].at = "outside", ![t].prop = "none"]
        /\ last' = [op |-> "return", thread |-> t, prop |-> callers[t].prop,
                    ret |-> IF callers[t].prop = "connection"
                            THEN _connection ELSE _spark]
        /\ UNCHANGED <<env, _use_sql_connector, _connection, _spark, cache, now, frames, run>>

NextThreads ==
    \/ EnterConnection
    \/ EnterSpark
    \/ RunFactory
    \/ AssignClient
    \/ ReturnClient

SpecThreads == InitCache /\ [][NextThreads]_vars

----------------------------------------------------------------------------
(* Properties *)


\* the last step was a call on the data layer
IsRequest == last.op \notin {"idle", "clear"}

\* the request called _detect_connection_type
Resolved(ev) ==
    Has(ev, "_detect_connection_type: True") \/ Has(ev, "_detect_connection_type: False")

\* an environment signal is present: set to a non-empty value
Present(name) == name \in DOMAIN env /\ Len(env[name]) > 0

\* C1: on a data layer whose mode is not yet resolved, the first resolution
\* picks the mode by first match: runtime marker -> ManagedSession (False),
\* else warehouse id or http path -> WarehouseSQL (True), else cluster id ->
\* ManagedSession (False), else WarehouseSQL (True); this for every
\* combination of the four signals.
PriorityMode ==
    CASE Present(RUNTIME_VERSION) -> FALSE
      [] ~Present(RUNTIME_VERSION) /\ (Present(WAREHOUSE_ID) \/ Present(HTTP_PATH)) -> TRUE
      [] ~Present(RUNTIME_VERSION) /\ ~Present(WAREHOUSE_ID) /\ ~Present(HTTP_PATH)
            /\ Present(CLUSTER_ID) -> FALSE
      [] OTHER -> TRUE
ModeResolutionPriority ==
    (IsRequest /\ last.pre._use_sql_connector = "None" /\ Resolved(last.ev)) =>
        /\ _use_sql_connector = (IF PriorityMode THEN "True" ELSE "False")
        /\ Has(last.ev, IF PriorityMode THEN "_detect_connection_type: True"
                        ELSE "_detect_connection_type: False")
        /\ ~Has(last.ev, IF PriorityMode THEN "_detect_connection_type: False"
                         ELSE "_detect_connection_type: True")
ClusterOnlyResolved ==
    /\ IsRequest /\ last.op = "get_connection_info"
    /\ last.pre._use_sql_connector = "None"
    /\ ~Present(RUNTIME_VERSION) /\ ~Present(WAREHOUSE_ID) /\ ~Present(HTTP_PATH)
    /\ Present(CLUSTER_ID)
    /\ _use_sql_connector = "False"

\* C2: once the mode is resolved it never changes, and every later request
\* that resolves the mode gets the pinned one, whatever the environment has
\* become.
ModePinned ==
    [][/\ (_use_sql_connector # "None" => _use_sql_connector' = _use_sql_connector)
       /\ (last'.op \notin {"idle", "clear"} /\ last'.pre._use_sql_connector # "None") =>
             /\ ~Has(last'.ev, IF last'.pre._use_sql_connector = "True"
                               THEN "_detect_connection_type: False"
                               ELSE "_detect_connection_type: True")
             /\ _use_sql_connector' = last'.pre._use_sql_connector]_vars
PinnedAgainstEnvironment ==
    /\ IsRequest /\ last.op = "health_check"
    /\ last.pre._use_sql_connector = "True"
    /\ Present(RUNTIME_VERSION)
    /\ Resolved(last.ev)
    /\ _use_sql_connector = "True"

\* C3: a request that builds the SQL client while host, token or wire path
\* (explicit, or derived from the warehouse id) is missing or empty fails
\* with the configuration error; sql.connect and cursor.execute are not
\* reached and no SQL is submitted.
MissingSetting ==
    \/ ~Present(HOST)
    \/ ~Present(TOKEN)
    \/ (~Present(HTTP_PATH) /\ ~Present(WAREHOUSE_ID))
ConfigErrorBeforeConnect ==
    (IsRequest /\ Has(last.ev, "_get_sql_connection") /\ MissingSetting) =>
        /\ Has(last.ev, "raise ValueError")
        /\ ~Has(last.ev, "sql.connect")
        /\ ~Has(last.ev, "cursor.execute")
        /\ last.sent = <<>>
        /\ _connection = NoClient
        /\ (last.op # "health_check" => last.exc = "ValueError")
OnlyTokenSet ==
    /\ IsRequest /\ last.op = "execute_custom_query"
    /\ DOMAIN env = {TOKEN} /\ Present(TOKEN)
    /\ last.exc = "ValueError"
    /\ Has(last.ev, "_get_sql_connection")

\* C4 as claimed: every result _execute_query returns has been passed through
\* _convert_numeric_columns, in both connection modes.
ExecutorReturned ==
    IsRequest /\ last.op = "execute_custom_query" /\ last.exc = "None"
LastKey == CacheKey(last.m, last.args)

\* C5: a metric call that finds an entry for its key younger than the TTL
\* (3600 s) executes no query and returns the stored result, so two calls
\* less than the TTL apart execute the query once; a call that finds an
\* entry whose age has reached the TTL executes the query again, once, and
\* when it succeeds stores its result as a fresh entry.
CacheTTL ==
    (last.op = "metric" /\ last.pre_entry # NoEntry) =>
        IF last.at - last.pre_entry.created < TTL
        THEN /\ Count(last.ev, "_execute_query") = 0
             /\ last.sent = <<>>
             /\ last.exc = "None"
             /\ last.ret = last.pre_entry.value
             /\ Stored(cache, LastKey) = last.pre_entry
        ELSE /\ Count(last.ev, "_execute_query") = 1
             /\ last.exc = "None" =>
                   /\ last.sent = <<last.query>>
                   /\ Stored(cache, LastKey) =
                         [value |-> last.ret, created |-> last.at, sql |-> last.query]
HitWithinTTL ==
    /\ last.op = "metric"
    /\ last.pre_entry # NoEntry
    /\ last.at > last.pre_entry.created
    /\ last.at - last.pre_entry.created < TTL
    /\ last.ev = <<"cache hit">>

\* C6: a successful metric call returns a result computed by its own query,
\* that is for its own method and its own limit, and every entry of the
\* cache holds the result of the query of its key.
CacheKeyIndependence ==
    /\ (last.op = "metric" /\ last.exc = "None") =>
            last.computed_for = MetricQuery(last.m, last.args)
    /\ \A key \in DOMAIN cache : cache[key].sql = MetricQuery(key[1], key[2])
HitBesideOtherLimits ==
    /\ last.op = "metric" /\ last.m = "get_top_customers" /\ last.args = <<5>>
    /\ last.ev = <<"cache hit">>
    /\ CacheKey("get_top_customers", <<10>>) \in DOMAIN cache
    /\ CacheKey("get_top_parts_by_revenue", <<5>>) \in DOMAIN cache

\* C7: the Refresh Cache button leaves no entry at all, whatever the entries'
\* ages, and a metric call that finds no entry for its key executes its query.
ClearAllIsTotal ==
    /\ last.op = "clear" => cache = EmptyCache
    /\ (last.op = "metric" /\ last.pre_entry = NoEntry) =>
            /\ Count(last.ev, "_execute_query") = 1
            /\ ~Has(last.ev, "cache hit")
ClearedSeveralEntries ==
    /\ last.op = "clear"
    /\ Cardinality(last.pre_keys) >= 2
    /\ now >= TTL

\* C8: when the query behind a metric call fails (configuration error, client
\* construction failure or query failure), the error reaches the caller, the
\* entry stored for the key is what it was before the call, and the key has no
\* live entry, so the next call executes the query again.
QueryBehindMetricFailed ==
    /\ last.op = "metric"
    /\ Has(last.ev, "cache miss")
    /\ \/ Has(last.ev, "raise ValueError")
       \/ (last.ext.fail = "client" /\
              (Has(last.ev, "sql.connect") \/ Has(last.ev, "getOrCreate")))
       \/ last.ext.fail = "query"
FailureNotCached ==
    QueryBehindMetricFailed =>
        /\ last.exc \in {"ValueError", "ConnectError", "SessionError", "QueryError"}
        /\ Stored(cache, LastKey) = last.pre_entry
        /\ Lookup(cache, LastKey, now) = NoEntry
FailedOverExpiredEntry ==
    /\ QueryBehindMetricFailed
    /\ last.m = "get_kpi_metrics"
    /\ last.exc = "QueryError"
    /\ last.pre_entry # NoEntry

\* C9: a call of execute_custom_query invokes the executor exactly once and
\* neither reads nor writes the result cache, whatever the cache holds.
AdHocBypassesCache ==
    [][last'.op = "execute_custom_query" =>
          /\ cache' = cache
          /\ Count(last'.ev, "_execute_query") = 1
          /\ ~Has(last'.ev, "cache hit")
          /\ ~Has(last'.ev, "cache miss")
          /\ ~Has(last'.ev, "cache store")
          /\ (last'.exc = "None" => last'.sent = <<last'.query>>)]_vars
AdHocRepeatedOverCache ==
    /\ last.op = "execute_custom_query"
    /\ last.exc = "None"
    /\ last.sent = <<last.query>>
    /\ cache # EmptyCache

\* C10: health_check never raises; it returns True exactly when the probe
\* query was submitted and executed without error, and False for a missing
\* configuration, a client construction failure and a query failure, in both
\* connection modes.
ProbeExecuted ==
    /\ (Has(last.ev, "cursor.execute") \/ Has(last.ev, "spark.sql"))
    /\ last.ext.fail # "query"
HealthCheckTotal ==
    last.op = "health_check" =>
        /\ last.exc = "None"
        /\ last.ret \in BOOLEAN
        /\ last.ret <=> ProbeExecuted
        /\ Has(last.ev, "raise ValueError") => last.ret = FALSE
        /\ (last.ext.fail # "none" /\ last.pre._connection = NoClient
               /\ last.pre._spark = NoClient) => last.ret = FALSE
HealthFalseOnMissingConfig ==
    /\ last.op = "health_check"
    /\ Has(last.ev, "raise ValueError")
    /\ last.ret = FALSE
    /\ last.exc = "None"

\* C11: _convert_numeric_columns is idempotent: applied to a table it has
\* returned, it returns that table again, for every table of up to MaxCols
\* columns (repeated names included) and MaxRows rows of numeric, text and
\* null cells.
Returned == frames[Len(frames)]
NormalizerIdempotent ==
    (last.op = "_convert_numeric_columns" /\ last.exc = "None") =>
        /\ _convert_numeric_columns(Returned) = Returned
        /\ last.arg_from = "_convert_numeric_columns" => Returned = last.passed
NormalizedTwice ==
    /\ last.op = "_convert_numeric_columns"
    /\ last.arg_from = "_convert_numeric_columns"
    /\ Returned = last.passed
    /\ Len(Returned) = 2
    /\ Returned[1].dtype = "object"
    /\ Returned[2].dtype = "float64"

\* a cell that parses as a number, and the number it denotes
Parses(c) == c.k \in {"num", "dec"} \/ (c.k = "str" /\ ParseDigits(c.s) >= 0)
NumberOf(c) == IF c.k = "str" THEN Num(ParseDigits(c.s)) ELSE Num(c.v)

\* what the claim says of one column: an object column with a cell that
\* parses becomes numeric, its other cells null; an object column with none
\* keeps its values; a column of a numeric dtype is not altered
ConvertedAsClaimed(before, after) ==
    /\ after.name = before.name
    /\ Len(after.cells) = Len(before.cells)
    /\ IF before.dtype = "object" /\ \E k \in 1..Len(before.cells) : Parses(before.cells[k])
       THEN /\ after.dtype \in {"int64", "float64"}
            /\ \A k \in 1..Len(before.cells) :
                   after.cells[k] = IF Parses(before.cells[k])
                                    THEN NumberOf(before.cells[k]) ELSE NaN
       ELSE after = before

\* C12: _convert_numeric_columns returns, for each column of the table it is
\* given, that column converted as claimed: replaced by its parsed values if
\* and only if at least one cell parses, unparseable cells null; left with
\* its original values when no cell parses (an all-null column and a column
\* without rows included); never altered when its dtype is numeric.
ColumnwiseConversion ==
    (last.op = "_convert_numeric_columns" /\ last.exc = "None") =>
        /\ Len(Returned) = Len(last.passed)
        /\ \A i \in 1..Len(last.passed) :
               i <= Len(Returned) => ConvertedAsClaimed(last.passed[i], Returned[i])

\* what holds of C12: the same, of the tables whose column names differ
ColumnwiseConversionOfDistinctNames ==
    (last.op = "_convert_numeric_columns" /\ last.exc = "None"
        /\ ~RepeatedNames(last.passed)) =>
        /\ Len(Returned) = Len(last.passed)
        /\ \A i \in 1..Len(last.passed) :
               ConvertedAsClaimed(last.passed[i], Returned[i])
MixedColumnConverted ==
    /\ last.op = "_convert_numeric_columns"
    /\ ~RepeatedNames(last.passed)
    /\ Len(last.passed) = 2
    /\ last.passed[1].cells = <<Str(<<"1">>), Str(<<"a">>)>>
    /\ Returned[1].cells = <<Num(1), NaN>>
    /\ last.passed[2].cells = <<NoneCell, NoneCell>>
    /\ Returned[2] = last.passed[2]

\* C18: in WarehouseSQL mode the table _execute_query returns has the columns
\* of cursor.description, as many, with the same names in the same order,
\* and as many rows as fetchall returned, also when the description repeats
\* a name.
DescribedColumns(df, description, rows) ==
    /\ Len(df) = Len(description)
    /\ \A i \in 1..Len(description) :
           df[i].name = description[i] /\ Len(df[i].cells) = Len(rows)
ColumnsAsDescribed ==
    (ExecutorReturned /\ _use_sql_connector = "True") =>
        DescribedColumns(last.ret, last.ext.description, last.ext.rows)

\* what holds of C18: the same, of the descriptions whose names differ
ColumnsAsDescribedOfDistinctNames ==
    (ExecutorReturned /\ _use_sql_connector = "True"
        /\ \A i, j \in 1..Len(last.ext.description) :
               last.ext.description[i] = last.ext.description[j] => i = j) =>
        DescribedColumns(last.ret, last.ext.description, last.ext.rows)

\* C19: a call of _convert_numeric_columns or of ensure_numeric_columns
\* leaves the table passed to it as it was, and what it returns is another
\* object than the one passed.
NormalizerSideEffectFree ==
    last.op \in {"_convert_numeric_columns", "ensure_numeric_columns"} =>
        /\ frames[1] = last.passed
        /\ last.exc = "None" => (last.fresh /\ Len(frames) = 2)
PassedTableKeptItsText ==
    /\ last.op = "ensure_numeric_columns"
    /\ last.exc = "None"
    /\ Len(frames) = 2
    /\ frames[1] = last.passed
    /\ frames[2] # frames[1]
    /\ \E i \in 1..Len(frames[1]) :
           frames[1][i].dtype = "object" /\ frames[2][i].dtype = "float64"

\* the sections of each tab, in the order of the code
TabSections(tab) ==
    CASE tab = "overview"  -> <<"kpis", "trend", "status", "priority">>
      [] tab = "customers" -> <<"top customers", "segments", "segment trend">>
      [] tab = "geography" -> <<"regions">>
      [] tab = "products"  -> <<"top products", "suppliers", "fulfillment">>

\* every section of the tab requested its metric, and shows the inline error
\* exactly when its own metric call failed
EverySectionHandled(tab, out) ==
    /\ Len(out) = Len(TabSections(tab))
    /\ \A i \in 1..Len(out) :
           /\ out[i].section = TabSections(tab)[i]
           /\ out[i].show = "st.error" <=> out[i].exc # "None"

\* C13: in every tab, a section whose metric call fails shows an inline
\* error and every other section of the tab is still rendered, its metric
\* requested; in particular a failure of get_kpi_metrics does not keep the
\* trend, status and priority sections of the overview tab from rendering.
SectionsFaultIsolated ==
    last.op = "render" => EverySectionHandled(last.tab, last.out)

\* what holds of C13: the same, of the other tabs, and of the overview tab
\* when its KPI section did not fail
SectionsFaultIsolatedButKpis ==
    (last.op = "render" /\ (last.tab = "overview" => last.out[1].exc = "None")) =>
        EverySectionHandled(last.tab, last.out)
KpisFailureEndsOverview ==
    /\ last.op = "render" /\ last.tab = "overview"
    /\ last.out[1].exc # "None"
    /\ Len(last.out) = 1

\* C14: one call of _execute_query submits its SQL text to the backend at
\* most once, in either mode; when the submission fails nothing is submitted
\* again and the failure reaches the immediate caller (health_check turns
\* it into False, execute_custom_query lets it through).
Submissions(ev) == Count(ev, "cursor.execute") + Count(ev, "spark.sql")
ExecutorNeverRetries ==
    (IsRequest /\ Has(last.ev, "_execute_query")) =>
        /\ Count(last.ev, "_execute_query") = 1
        /\ Submissions(last.ev) <= 1
        /\ Len(last.sent) = Submissions(last.ev)
        /\ last.sent # <<>> => last.sent = <<last.query>>
        /\ (Submissions(last.ev) = 1 /\ last.ext.fail = "query") =>
               IF last.op = "health_check"
               THEN last.ret = FALSE
               ELSE last.exc = "QueryError" /\ last.ret = NoResult
SubmissionFailedOnce ==
    /\ last.op = "execute_custom_query"
    /\ last.ext.fail = "query"
    /\ last.sent = <<last.query>>
    /\ Count(last.ev, "cursor.execute") = 1
    /\ last.exc = "QueryError"

\* C15: once a client is initialized no later call replaces it, and over
\* every interleaving of the threads that share the data layer the client
\* factory completes successfully at most once.
FactoryCompletions == Cardinality({t \in Threads : callers[t].made})
ClientMemoizedAcrossCallers ==
    [][/\ FactoryCompletions' <= 1
       /\ _connection # NoClient => _connection' = _connection
       /\ _spark # NoClient => _spark' = _spark]_vars

\* what holds of C15: the same, of calls that follow one another
ClientMemoizedInSequence ==
    [][/\ _connection # NoClient => _connection' = _connection
       /\ _spark # NoClient => _spark' = _spark
       /\ (last'.op \notin {"idle", "clear"} /\ last'.pre._connection # NoClient) =>
              ~Has(last'.ev, "sql.connect")
       /\ (last'.op \notin {"idle", "clear"} /\ last'.pre._spark # NoClient) =>
              ~Has(last'.ev, "getOrCreate")]_vars
SecondClientReplacedFirst ==
    /\ last.op = "assign"
    /\ last.replaced # NoClient
    /\ _connection # last.replaced

\* the slider that sets the limit of a ranking method
LimitSlider(m) ==
    CASE m = "get_top_customers"        -> TopCustomersSlider
      [] m = "get_top_parts_by_revenue" -> TopProductsSlider
      [] m = "get_supplier_performance" -> TopSuppliersSlider

\* C16: the SQL text of every metric call is its method's template; only
\* get_top_customers, get_top_parts_by_revenue and get_supplier_performance
\* substitute a value, the row limit, and that value is an integer within
\* the bounds of the slider it comes from; what is submitted is that text.
LimitIsBoundedInteger(m, query) ==
    IF m \in RankingMetrics
    THEN /\ DOMAIN query = {"template", "limit"}
         /\ query.template = m
         /\ query.limit \in Int
         /\ LimitSlider(m).min_value <= query.limit
         /\ query.limit <= LimitSlider(m).max_value
    ELSE /\ DOMAIN query = {"template"}
         /\ query.template = m
ReadsConnection == last.op \in {"connection", "health_check", "execute_custom_query"}

\* host, token and path are present: the host names a server, not only a
\* scheme, the token is set, and so is the path or the warehouse id
SettingsPresent ==
    /\ Present(HOST) /\ \E i \in 1..Len(env[HOST]) : env[HOST][i] \notin {"https://", "http://"}
    /\ Present(TOKEN)
    /\ Present(HTTP_PATH) \/ Present(WAREHOUSE_ID)

\* C17: a request that ends in the configuration error leaves _connection
\* None and the data layer as the mode resolution that preceded the attempt
\* left it; the next request that needs the connection calls
\* _get_sql_connection again, and builds the client once host, token and
\* path are present.
ConfigErrorLeavesNoState ==
    /\ (IsRequest /\ Has(last.ev, "raise ValueError")) =>
            /\ _connection = NoClient
            /\ ThisSelf = _detect_connection_type(last.pre, env).self
            /\ cache = EmptyCache /\ frames = <<>>
    /\ (IsRequest /\ last.after_config_error /\ ReadsConnection) =>
            /\ Has(last.ev, "_get_sql_connection")
            /\ SettingsPresent <=> ~Has(last.ev, "raise ValueError")
            /\ (SettingsPresent /\ last.ext.fail # "client") =>
                   /\ _connection # NoClient
                   /\ last.op = "connection" => last.ret = _connection
RebuiltAfterConfigurationFixed ==
    /\ IsRequest /\ last.after_config_error
    /\ last.op = "execute_custom_query"
    /\ last.pre._connection = NoClient
    /\ _connection # NoClient
    /\ last.exc = "None"

\* a host without its leading schemes
Schemes == {"https://", "http://"}
RECURSIVE StripLeading(_)
StripLeading(str) ==
    IF Len(str) > 0 /\ str[1] \in Schemes THEN StripLeading(Tail(str)) ELSE str

\* C20: the client is built with the explicit DATABRICKS_HTTP_PATH as its
\* path when that is set, with /sql/1.0/warehouses/{id} only when it is not,
\* with DATABRICKS_HOST less its leading https:// or http:// as its host, and
\* with DATABRICKS_TOKEN as its token.
ClientBuilt ==
    /\ IsRequest /\ Has(last.ev, "sql.connect")
    /\ last.pre._connection = NoClient /\ _connection # NoClient
WirePathAndHost ==
    ClientBuilt =>
        /\ _connection.http_path =
              IF Present(HTTP_PATH) THEN env[HTTP_PATH]
              ELSE <<"/sql/1.0/warehouses/">> \o env[WAREHOUSE_ID]
        /\ _connection.server_hostname[1] \notin Schemes
        /\ (\A i \in 1..Len(StripLeading(env[HOST])) :
                StripLeading(env[HOST])[i] \notin Schemes) =>
               _connection.server_hostname = StripLeading(env[HOST])
        /\ _connection.access_token = env[TOKEN]
ExplicitPathOverWarehouse ==
    /\ ClientBuilt
    /\ Present(HTTP_PATH) /\ Present(WAREHOUSE_ID)
    /\ env[HOST] = <<"https://", "h">>
    /\ _connection.server_hostname = <<"h">>
    /\ _connection.http_path = env[HTTP_PATH]

\* C21: at most one of the two clients exists: a connection only on a data
\* layer pinned to WarehouseSQL, a session only on one pinned to
\* ManagedSession; reading the property of the other mode returns None and
\* calls neither factory.
OtherModeRead ==
    /\ IsRequest
    /\ \/ last.op = "connection" /\ _use_sql_connector = "False"
       \/ last.op = "spark" /\ _use_sql_connector = "True"
AtMostOneClient ==
    /\ ~(_connection # NoClient /\ _spark # NoClient)
    /\ _connection # NoClient => _use_sql_connector = "True"
    /\ _spark # NoClient => _use_sql_connector = "False"
    /\ OtherModeRead =>
           /\ last.exc = "None" /\ last.ret = NoClient
           /\ ~Has(last.ev, "_get_sql_connection") /\ ~Has(last.ev, "sql.connect")
           /\ ~Has(last.ev, "_get_spark_session") /\ ~Has(last.ev, "getOrCreate")
           /\ ThisSelf = [last.pre EXCEPT !._use_sql_connector = _use_sql_connector]
ConnectionReadBesideSession ==
    /\ OtherModeRead /\ last.op = "connection"
    /\ _spark # NoClient
    /\ SettingsPresent /\ last.ext.fail # "client"

\* the metric calls of the four metric tabs, in the order of the script
OverviewCalls == <<"get_kpi_metrics", "get_orders_summary", "get_orders_by_status",
                   "get_orders_by_priority">>
TabCalls ==
    <<"get_top_customers", "get_market_segment_analysis", "get_monthly_trend_by_segment",
      "get_revenue_by_region",
      "get_top_parts_by_revenue", "get_supplier_performance",
      "get_order_fulfillment_metrics">>
MetricCallsOf(order) == SelectSeq(order, LAMBDA c : c \notin {"health_check", "execute_custom_query"})

\* a run of main that obtained the data layer probes the health once,
\* first, by a query it submits itself; a run ends before its tabs only by
\* an exception of the import or of the sidebar; otherwise it renders the
\* five tabs in order
ProbedOnceThenTabs ==
    /\ run.at \in {"none", "st.error"} <=> run.order = <<>>
    /\ run.order # <<>> =>
           /\ run.order[1] = "health_check"
           /\ Count(run.order, "health_check") = 1
           /\ run.health \in {"True", "False"}
    /\ (IsRequest /\ last.op = "health_check") =>
           /\ Has(last.ev, "_execute_query") /\ ~Has(last.ev, "cache hit")
           /\ run.order = <<"health_check">>
           /\ run.health = "True" <=> last.exc = "None" /\ last.ret = TRUE
           /\ (last.ext.fail = "none" /\ (_connection # NoClient \/ _spark # NoClient)) =>
                  last.sent = <<HealthQuery>>
    /\ run.at \in {"rerun", "st.error"} => run.tabs = <<>> /\ Len(run.order) <= 1
    /\ run.at \notin {"none", "rerun", "st.error", "done"} =>
           /\ Len(run.tabs) < Len(MainTabs)
           /\ run.at = MainTabs[Len(run.tabs) + 1]
           /\ run.tabs = SubSeq(MainTabs, 1, Len(run.tabs))
    /\ run.at = "done" => run.tabs = MainTabs

\* C22: every run of main that obtains the data layer executes one health
\* probe, uncached and before every metric call; a result of False changes
\* only the indicator: the five tabs are rendered and every metric call of
\* theirs is made; only an exception of the import or of the sidebar ends
\* the run before the tabs.
HealthProbeOncePerRender ==
    /\ ProbedOnceThenTabs
    /\ (run.at = "done" /\ run.health = "False") =>
           MetricCallsOf(run.order) = OverviewCalls \o TabCalls

\* what holds of C22: the same, but for the calls render_overview_tab skips
\* when its KPIs failed (C13)
HealthProbeOncePerRenderButKpis ==
    /\ ProbedOnceThenTabs
    /\ run.at = "done" =>
           MetricCallsOf(run.order) =
               IF Has(run.errors, "kpis")
               THEN <<"get_kpi_metrics">> \o TabCalls
               ELSE OverviewCalls \o TabCalls
UnhealthyRunRenderedAllTabs ==
    /\ run.at = "done" /\ run.health = "False"
    /\ ~Has(run.errors, "kpis")
    /\ MetricCallsOf(run.order) = OverviewCalls \o TabCalls
UnhealthyRunSkippedOverviewCalls ==
    /\ run.at = "done" /\ run.health = "False"
    /\ Has(run.errors, "kpis")
    /\ ~Has(run.order, "get_orders_summary")

====
